---- MODULE Spec2Model ----
(***************************************************************************)
(* Model of the scheduling dialogue of friendly-chatbot                     *)
(* (src/app/routes.py with its collaborators storage.py, calendar.py,       *)
(* tasks.py, emailer.py) for one chat id.                                   *)
(*                                                                          *)
(* A text message is represented by what the handler's substring tests,    *)
(* regular expressions and the fuzzy date parser make of it (see Message).  *)
(* Instants are integers: instant = day * TicksPerDay + time-of-day.        *)
(***************************************************************************)
EXTENDS Integers, Sequences, FiniteSets, TLC

\* ------------------------------------------------------------------ bounds
TicksPerDay == 2      \* times of day per calendar day
MaxDay      == 1      \* latest date a text names (day 0 is the earliest)
MaxNow      == 2      \* the clock runs over instants 0..MaxNow
MaxRel      == 1      \* largest relative offset "in N ...", in ticks
MaxEvents   == 1      \* calendar events ever created (ids the calendar hands out)
MaxPhrases  == 2      \* relative phrases in one text

\* ------------------------------------------------------- program constants
None == -1            \* Python None (absent date, time, duration, start)
DefaultDuration == 30 \* "details.get('duration') or 30"

\* the dates and the times of day that texts name: the earliest and the latest
Days  == {0, MaxDay}
Tods  == {0, TicksPerDay - 1}

\* datetime.date() / time-of-day of an instant, datetime.combine(date, time)
DateOf(i) == i \div TicksPerDay
TimeOf(i) == i % TicksPerDay
Combine(d, t) == d * TicksPerDay + t

\* Python truthiness of an optional integer (None and 0 are falsy)
Truthy(x) == x # None /\ x # 0

\* ------------------------------------------------------------------ values
EmptyDraft == [title |-> "", duration |-> None, date |-> None]
NoState    == [intent |-> "none", draft |-> EmptyDraft]
NoEvent    == [eventId |-> 0, summary |-> "", start |-> None, minutes |-> None]

\* One attempted collaborator call, as logged in eff.
Effect(op, ok, id, title, start, minutes) ==
  [op |-> op, ok |-> ok, id |-> id, title |-> title, start |-> start, minutes |-> minutes]

\* One outbound chat message: its kind and the value interpolated into it.
Out(kind, arg) == [kind |-> kind, arg |-> arg]

VARIABLES
  now,         \* the clock, _now()
  state,       \* stored conversation state of the chat (intent + draft)
  event,       \* stored appointment of the chat ("event" field of the document)
  task_names,  \* stored reminder task references ("task_names" field)
  cal,         \* events living in the calendar service: id and summary
  tasks,       \* reminder tasks living in the task queue
  nextId,      \* next event id the calendar service hands out
  pc,          \* "idle" | "done": no request, or one handled and not yet answered
  msg,         \* the message of the request
  fault,       \* the collaborator that is failing during this request, or "none"
  pre,         \* stored state / event / task_names when the request started
  details,     \* result of _merge_schedule_details in this request, if it ran
  branch,      \* the branch of telegram_webhook that handled the request
  out,         \* messages handed to _tg_send in this request
  eff,         \* collaborator calls attempted in this request, in order
  result,      \* "ok" (handler returned) | "uncaught" (exception left the handler)
  hist,        \* previous request's message, prompt and resulting state
  inflight,    \* per concurrent handler: its position, message and the state it read
  serialized,  \* whether the surrounding system handles one request of the chat at a time
  races        \* the read-modify-write races that have happened so far

vars == <<now, state, event, task_names, cal, tasks, nextId, pc, msg,
          fault, pre, details, branch, out, eff, result, hist,
          inflight, serialized, races>>

\* ------------------------------------------------------------ the message
\* What the handler can observe of a text:
\*   cmd      the explicit command the text starts with, or "" (text.startswith)
\*   ok       the command matches its grammar (re.match) and its date parses
\*   empty    the update carries no text
\*   stop     a STOP_CONVERSATION_PHRASES phrase occurs in the lowered text
\*   kwCancel, kwReschedule, kwSchedule   a keyword of that vocabulary occurs
\*   rel      offset of a relative phrase ("in N minutes"), or None
\*   datePat  EXPLICIT_DATE_PATTERN matches;  timePat  TIME_COMPONENT_PATTERN matches
\*   pDate    the date the fuzzy parser read, None when it fell back to the default
\*   pTime    the time of day the fuzzy parser read, None when it fell back to 00:00
\*   dur      minutes found by _extract_duration, or None
\*   resid    what _derive_title's substitutions leave of the text ("" when nothing)
\* For a well-formed command pDate, pTime, dur and resid hold the groups of its
\* grammar (date, time, duration, title).
Message(cmd, ok, empty, stop, kwC, kwR, kwS, rel, datePat, timePat, pDate, pTime, dur, resid) ==
  [cmd |-> cmd, ok |-> ok, empty |-> empty, stop |-> stop, kwCancel |-> kwC,
   kwReschedule |-> kwR, kwSchedule |-> kwS, rel |-> rel, datePat |-> datePat,
   timePat |-> timePat, pDate |-> pDate, pTime |-> pTime, dur |-> dur, resid |-> resid]

NoMessage == Message("", FALSE, TRUE, FALSE, FALSE, FALSE, FALSE, None, FALSE, FALSE, None, None, None, "")

NoDetails == [title |-> "", start |-> None, duration |-> None, date |-> None]
NoPre     == [state |-> NoState, event |-> NoEvent, task_names |-> {}]
NoHist    == [msg |-> NoMessage, out |-> <<>>, state |-> NoState, branch |-> ""]

\* ------------------------------------------------- the request in progress
\* The handler is evaluated on a record w of everything it can read or change;
\* w.exc names the collaborator whose call raised ("" while none has).
World(f) ==
  [state |-> state, event |-> event, task_names |-> task_names, cal |-> cal,
   tasks |-> tasks, nextId |-> nextId, out |-> <<>>, eff |-> <<>>, exc |-> "",
   fault |-> f, details |-> NoDetails, rEvent |-> NoEvent, rNames |-> {}]

Failing(w, op) == w.fault = op
Log(w, e) == [w EXCEPT !.eff = Append(@, e)]
Call(w, op) == Log(w, Effect(op, ~Failing(w, op), 0, "", None, None))
Raise(w, op) == [w EXCEPT !.exc = op]

\* statement sequencing: the next statement runs only if nothing was raised
Ok(w) == w.exc = ""
\* except Exception as e: the handler's body goes on from the world the failed
\* try block left, the exception (w.exc) being e
Caught(w) == [w EXCEPT !.exc = ""]

\* ----------------------------------------------------------- collaborators
\* Each call is written as a step on w: it is skipped when an exception is
\* already on its way up (Ok(w) false), is logged in w.eff, and raises when its
\* collaborator is the failing one.
tg_send(w, kind, arg) ==
  IF ~Ok(w) THEN w
  ELSE Call([w EXCEPT !.out = Append(@, Out(kind, arg))], "tg_send")

append_message(w) ==
  IF ~Ok(w) THEN w
  ELSE IF Failing(w, "append_message") THEN Raise(Call(w, "append_message"), "append_message")
  ELSE Call(w, "append_message")

get_state(w) ==
  IF ~Ok(w) THEN w
  ELSE IF Failing(w, "get_state") THEN Raise(Call(w, "get_state"), "get_state")
  ELSE Call(w, "get_state")

set_state(w, s) ==
  IF ~Ok(w) THEN w
  ELSE IF Failing(w, "set_state") THEN Raise(Call(w, "set_state"), "set_state")
  ELSE [Call(w, "set_state") EXCEPT !.state = s]

\* event = storage.get_event(chat_id); the value read is kept in w.rEvent
get_event(w) ==
  IF ~Ok(w) THEN w
  ELSE IF Failing(w, "get_event") THEN Raise(Call(w, "get_event"), "get_event")
  ELSE [Call(w, "get_event") EXCEPT !.rEvent = w.event]

set_event(w, e) ==
  IF ~Ok(w) THEN w
  ELSE IF Failing(w, "set_event") THEN Raise(Call(w, "set_event"), "set_event")
  ELSE [Log(w, Effect("set_event", TRUE, e.eventId, e.summary, e.start, e.minutes))
          EXCEPT !.event = e]

\* storage.get_task_names(chat_id); the value read is kept in w.rNames
get_task_names(w) ==
  IF ~Ok(w) THEN w
  ELSE IF Failing(w, "get_task_names") THEN Raise(Call(w, "get_task_names"), "get_task_names")
  ELSE [Call(w, "get_task_names") EXCEPT !.rNames = w.task_names]

set_task_names(w, names) ==
  IF ~Ok(w) THEN w
  ELSE IF Failing(w, "set_task_names") THEN Raise(Call(w, "set_task_names"), "set_task_names")
  ELSE [Call(w, "set_task_names") EXCEPT !.task_names = names]

\* cal.create_event; the event returned is kept in w.rEvent
create_event(w, summary, start, minutes) ==
  IF ~Ok(w) THEN w
  ELSE IF Failing(w, "create_event")
  THEN Raise(Log(w, Effect("create_event", FALSE, 0, summary, start, minutes)), "create_event")
  ELSE [Log(w, Effect("create_event", TRUE, w.nextId, summary, start, minutes))
          EXCEPT !.cal = @ \cup {[eventId |-> w.nextId, summary |-> summary]},
                 !.nextId = @ + 1,
                 !.rEvent = [eventId |-> w.nextId, summary |-> summary,
                             start |-> start, minutes |-> minutes]]

InCalendar(w, id) == \E c \in w.cal : c.eventId = id
CalendarEvent(w, id) == CHOOSE c \in w.cal : c.eventId = id

\* cal.reschedule_event: events().patch changes start and end of the calendar's
\* event (which the calendar keeps and nothing here reads back) and answers with
\* the calendar's own summary; an unknown id is an error of the service. The
\* event returned is kept in w.rEvent.
reschedule_event(w, id, start, minutes) ==
  IF ~Ok(w) THEN w
  ELSE IF Failing(w, "reschedule_event") \/ ~InCalendar(w, id)
  THEN Raise(Log(w, Effect("reschedule_event", FALSE, id, "", start, minutes)), "reschedule_event")
  ELSE [Log(w, Effect("reschedule_event", TRUE, id, CalendarEvent(w, id).summary, start, minutes))
          EXCEPT !.rEvent = [eventId |-> id, summary |-> CalendarEvent(w, id).summary,
                             start |-> start, minutes |-> minutes]]

cancel_event(w, id) ==
  IF ~Ok(w) THEN w
  ELSE IF Failing(w, "cancel_event") \/ ~InCalendar(w, id)
  THEN Raise(Log(w, Effect("cancel_event", FALSE, id, "", None, None)), "cancel_event")
  ELSE [Log(w, Effect("cancel_event", TRUE, id, "", None, None))
          EXCEPT !.cal = {c \in @ : c.eventId # id}]

ReminderKinds == {"day_before", "one_hour"}
Reminder(e, kind) == [ev |-> e.eventId, start |-> e.start, kind |-> kind]

\* ctasks.schedule_reminders: one task per reminder kind; the names returned are
\* kept in w.rNames
schedule_reminders(w, e) ==
  IF ~Ok(w) THEN w
  ELSE IF Failing(w, "schedule_reminders")
  THEN Raise(Log(w, Effect("schedule_reminders", FALSE, e.eventId, "", e.start, None)), "schedule_reminders")
  ELSE [Log(w, Effect("schedule_reminders", TRUE, e.eventId, "", e.start, None))
          EXCEPT !.tasks = @ \cup {Reminder(e, k) : k \in ReminderKinds},
                 !.rNames = {Reminder(e, k) : k \in ReminderKinds}]

\* ctasks.delete_tasks: every delete_task is wrapped in try/except, a failure is
\* swallowed
delete_tasks(w, names) ==
  IF ~Ok(w) THEN w
  ELSE IF Failing(w, "delete_tasks") THEN Call(w, "delete_tasks")
  ELSE [Call(w, "delete_tasks") EXCEPT !.tasks = @ \ names]

send_email(w) ==
  IF ~Ok(w) THEN w
  ELSE IF Failing(w, "send_email") THEN Raise(Call(w, "send_email"), "send_email")
  ELSE Call(w, "send_email")

\* the steps that pass on what the previous call returned
StoreEvent(w)      == set_event(w, w.rEvent)
RemindOf(w)        == schedule_reminders(w, w.rEvent)
StoreTaskNames(w)  == set_task_names(w, w.rNames)
DeleteOldTasks(w)  == delete_tasks(get_task_names(w), get_task_names(w).rNames)

\* ------------------------------------------------------------- extraction
\* A relative phrase of a text, as the patterns of _parse_relative_datetime see
\* it: the pattern that matches it, the number its group captures (None when the
\* group is no number) and the word it captures ("" when it is no word).
Phrase(pattern, number, word) == [pattern |-> pattern, number |-> number, word |-> word]

WORD_TO_NUMBER(word) ==
  CASE word = "one" -> 1 [] word = "two" -> 2 [] word = "three" -> 3
    [] word = "four" -> 4 [] word = "five" -> 5 [] word = "six" -> 6
    [] word = "seven" -> 7 [] word = "eight" -> 8 [] word = "nine" -> 9
    [] word = "ten" -> 10 [] word = "eleven" -> 11 [] word = "twelve" -> 12
    [] OTHER -> None

\* PATTERN.search(text): the place of the leftmost phrase the pattern matches, 0
\* when it matches none
Search(phrases, pattern) ==
  LET found == {i \in DOMAIN phrases : phrases[i].pattern = pattern} IN
  IF found = {} THEN 0 ELSE CHOOSE i \in found : \A j \in found : i <= j

\* (variant: "half an hour" is read as the hour of "an hour")
relative_minutes_half_as_hour(phrases) ==
  IF Search(phrases, "minutes") # 0
  THEN phrases[Search(phrases, "minutes")].number
  ELSE IF Search(phrases, "hours") # 0
  THEN 60 * phrases[Search(phrases, "hours")].number
  ELSE IF Search(phrases, "half_hour") # 0 THEN 60
  ELSE IF Search(phrases, "single_hour") # 0 THEN 60
  ELSE IF Search(phrases, "word_hours") # 0
          /\ Truthy(WORD_TO_NUMBER(phrases[Search(phrases, "word_hours")].word))
  THEN 60 * WORD_TO_NUMBER(phrases[Search(phrases, "word_hours")].word)
  ELSE None

\* the timedelta _parse_relative_datetime adds to the reference, in minutes: the
\* patterns are tried in the order minutes, hours, half hour, single hour, word
\* hours, and the first that matches decides
relative_minutes(phrases) ==
  IF Search(phrases, "minutes") # 0
  THEN phrases[Search(phrases, "minutes")].number
  ELSE IF Search(phrases, "hours") # 0
  THEN 60 * phrases[Search(phrases, "hours")].number
  ELSE IF Search(phrases, "half_hour") # 0 THEN 30
  ELSE IF Search(phrases, "single_hour") # 0 THEN 60
  ELSE IF Search(phrases, "word_hours") # 0
          /\ Truthy(WORD_TO_NUMBER(phrases[Search(phrases, "word_hours")].word))
  THEN 60 * WORD_TO_NUMBER(phrases[Search(phrases, "word_hours")].word)
  ELSE None

\* _parse_relative_datetime: reference + offset, or None
parse_relative_datetime(m, reference) ==
  IF m.rel = None THEN None ELSE reference + m.rel

\* date_parser.parse(text, fuzzy_with_tokens=True, default=today 00:00): fields the
\* text does not give keep the default's; a text giving no field raises ValueError.
ParseFails(m) == m.pDate = None /\ m.pTime = None
FuzzyParse(m, reference) ==
  Combine(IF m.pDate = None THEN DateOf(reference) ELSE m.pDate,
          IF m.pTime = None THEN 0 ELSE m.pTime)

\* (variant: a time is also taken as present when the parse differs from the
\* sentinel default, without the time pattern's cross-check)
extract_datetime_details_sentinel(m, reference) ==
  LET relative == parse_relative_datetime(m, reference) IN
  IF relative # None
  THEN [start |-> relative, has_time |-> TRUE, has_date |-> TRUE,
        explicit_date |-> TRUE, date |-> DateOf(relative), parsed |-> None]
  ELSE IF ParseFails(m)
  THEN [start |-> None, has_time |-> FALSE, has_date |-> FALSE,
        explicit_date |-> FALSE, date |-> None, parsed |-> None]
  ELSE
    LET parsed   == FuzzyParse(m, reference)
        has_time == m.timePat \/ TimeOf(parsed) # 0
        has_date == m.datePat \/ has_time
    IN [start         |-> IF has_date /\ has_time THEN parsed ELSE None,
        has_time      |-> has_time,
        has_date      |-> has_date,
        explicit_date |-> m.datePat,
        date          |-> IF has_date THEN DateOf(parsed) ELSE None,
        parsed        |-> parsed]

extract_datetime_details(m, reference) ==
  LET relative == parse_relative_datetime(m, reference) IN
  IF relative # None
  THEN [start |-> relative, has_time |-> TRUE, has_date |-> TRUE,
        explicit_date |-> TRUE, date |-> DateOf(relative), parsed |-> None]
  ELSE IF ParseFails(m)
  THEN [start |-> None, has_time |-> FALSE, has_date |-> FALSE,
        explicit_date |-> FALSE, date |-> None, parsed |-> None]
  ELSE
    LET parsed0       == FuzzyParse(m, reference)
        has_time      == m.timePat
        explicit_date == m.datePat
        has_date      == explicit_date \/ has_time
        \* "if has_time and not has_date and parsed <= reference": evaluated after
        \* has_date was forced to True for every text with a time
        parsed        == IF has_time /\ ~has_date /\ parsed0 <= reference
                         THEN parsed0 + TicksPerDay ELSE parsed0
    IN [start         |-> IF has_date /\ has_time THEN parsed ELSE None,
        has_time      |-> has_time,
        has_date      |-> has_date,
        explicit_date |-> explicit_date,
        date          |-> IF has_date THEN DateOf(parsed) ELSE None,
        parsed        |-> parsed]

\* _extract_duration on a match of DURATION_PATTERN: "<value> hours" or "<value>
\* minutes" in minutes, "max(minutes, 1)"
digit_duration(value, unit) ==
  IF (IF unit = "hours" THEN 60 * value ELSE value) >= 1
  THEN (IF unit = "hours" THEN 60 * value ELSE value)
  ELSE 1

\* _extract_duration on a match of WORD_DURATION_PATTERN inside a relative
\* phrase: "an hour" (also the one in "half an hour"), "two hours"
word_duration(phrase) ==
  IF phrase.pattern = "word_hours" THEN 60 * WORD_TO_NUMBER(phrase.word) ELSE 60

\* _extract_duration on a text whose only duration-like phrases are its relative
\* phrases: the leftmost match of DURATION_PATTERN ("30 minutes" in "in 30
\* minutes"), else the leftmost match of WORD_DURATION_PATTERN
phrase_duration(phrases) ==
  LET digits == {i \in DOMAIN phrases : phrases[i].pattern \in {"minutes", "hours"}}
      first(S) == CHOOSE i \in S : \A j \in S : i <= j
  IN IF digits # {}
     THEN digit_duration(phrases[first(digits)].number, phrases[first(digits)].pattern)
     ELSE IF phrases # <<>> THEN word_duration(phrases[first(DOMAIN phrases)])
     ELSE None

\* the (duration, phrase) _extract_duration returns for a text: what the message
\* carries in dur
extract_duration(m) == m.dur

derive_title(m, existing) ==
  LET cleaned == m.resid IN
  IF cleaned = "" THEN (IF existing # "" THEN existing ELSE "Appointment")
  ELSE IF existing # "" /\ cleaned = "appointment" THEN existing
  ELSE cleaned

\* (variant: the start read from the text is used as read, on today's date)
merge_schedule_details_today(m, draft, reference) ==
  LET parsed        == extract_datetime_details(m, reference)
      duration      == extract_duration(m)
      title         == derive_title(m, draft.title)
      stored_date   == draft.date
      explicit_date == parsed.explicit_date
      date_iso == IF parsed.date # None /\ (explicit_date \/ stored_date = None)
                  THEN parsed.date ELSE stored_date
  IN [title    |-> title,
      start    |-> parsed.start,
      duration |-> IF Truthy(duration) THEN duration ELSE draft.duration,
      date     |-> date_iso]

merge_schedule_details(m, draft, reference) ==
  LET parsed        == extract_datetime_details(m, reference)
      duration      == extract_duration(m)
      title         == derive_title(m, draft.title)
      has_time      == parsed.has_time
      stored_date   == draft.date
      parsed_dt     == parsed.parsed
      explicit_date == parsed.explicit_date
      start1 == IF parsed.start # None /\ stored_date # None /\ parsed_dt # None /\ ~explicit_date
                THEN Combine(stored_date, TimeOf(parsed.start))
                ELSE parsed.start
      start2 == IF start1 = None /\ has_time /\ stored_date # None /\ parsed_dt # None
                THEN Combine(stored_date, TimeOf(parsed_dt))
                ELSE start1
      date_iso == IF parsed.date # None /\ (explicit_date \/ stored_date = None)
                  THEN parsed.date ELSE stored_date
  IN [title    |-> title,
      start    |-> start2,
      duration |-> IF Truthy(duration) THEN duration ELSE draft.duration,
      date     |-> date_iso]

\* ------------------------------------------------------------ the dialogue
prompt_for_details(w, draft, is_reschedule) ==
  LET title      == draft.title
      have_title == title # "" /\ title # "Appointment"
  IN IF is_reschedule
     THEN (IF draft.date # None THEN tg_send(w, "ask_move_time", "")
                                ELSE tg_send(w, "ask_move_when", ""))
     ELSE IF draft.date # None
     THEN (IF have_title THEN tg_send(w, "ask_time_for", title)
                         ELSE tg_send(w, "ask_time", ""))
     ELSE (IF have_title THEN tg_send(w, "ask_when_for", title)
                         ELSE tg_send(w, "ask_when", ""))

\* the try block of _complete_schedule, schedule side
FinalizeSchedule(w, title, start_dt, duration) ==
  send_email(
    tg_send(
      set_state(
        StoreTaskNames(RemindOf(StoreEvent(create_event(w, title, start_dt, duration)))),
        NoState),
      "scheduled", title))

\* the try block of _complete_schedule, reschedule side, once the event is read
MoveEvent(w, title, start_dt, duration) ==
  tg_send(
    set_state(
      StoreTaskNames(RemindOf(DeleteOldTasks(StoreEvent(
        reschedule_event(w, w.rEvent.eventId, start_dt, duration))))),
      NoState),
    "moved", IF w.rEvent.summary # "" THEN w.rEvent.summary ELSE title)

NothingToMove(w) == set_state(tg_send(w, "no_appointment_to_move", ""), NoState)

AfterGetEvent(w, title, start_dt, duration) ==
  IF ~Ok(w) THEN w
  ELSE IF w.rEvent = NoEvent THEN NothingToMove(w)
  ELSE MoveEvent(w, title, start_dt, duration)

FinalizeReschedule(w, title, start_dt, duration) ==
  AfterGetEvent(get_event(w), title, start_dt, duration)

\* except Exception as e: of _complete_schedule
FinalizeFailed(w) ==
  IF Ok(w) THEN w ELSE tg_send(set_state(Caught(w), NoState), "finish_failed", w.exc)

\* (variant: the draft is stored without the date known so far)
AwaitingState_without_date(d, is_reschedule) ==
  [intent |-> IF is_reschedule THEN "reschedule" ELSE "schedule",
   draft  |-> [title    |-> IF d.title # "" THEN d.title ELSE "Appointment",
               duration |-> IF Truthy(d.duration) /\ d.duration # DefaultDuration
                            THEN d.duration ELSE None,
               date     |-> None]]

\* the draft _complete_schedule stores while it waits for more
AwaitingState(d, is_reschedule) ==
  [intent |-> IF is_reschedule THEN "reschedule" ELSE "schedule",
   draft  |-> [title    |-> IF d.title # "" THEN d.title ELSE "Appointment",
               duration |-> IF Truthy(d.duration) /\ d.duration # DefaultDuration
                            THEN d.duration ELSE None,
               date     |-> d.date]]

\* (variant: a start equal to now counts as future)
complete_schedule_not_strict(w, d, is_reschedule, t) ==
  LET duration == IF Truthy(d.duration) THEN d.duration ELSE DefaultDuration
      title    == IF d.title # "" THEN d.title ELSE "Appointment"
      awaiting == AwaitingState(d, is_reschedule)
  IN IF d.start = None
     THEN prompt_for_details(set_state(w, awaiting), awaiting.draft, is_reschedule)
     ELSE IF d.start < t
     THEN tg_send(set_state(w, awaiting), "ask_future", "")
     ELSE FinalizeFailed(IF is_reschedule
                         THEN FinalizeReschedule(w, title, d.start, duration)
                         ELSE FinalizeSchedule(w, title, d.start, duration))

complete_schedule(w, d, is_reschedule, t) ==
  LET duration == IF Truthy(d.duration) THEN d.duration ELSE DefaultDuration
      title    == IF d.title # "" THEN d.title ELSE "Appointment"
      awaiting == AwaitingState(d, is_reschedule)
  IN IF d.start = None
     THEN prompt_for_details(set_state(w, awaiting), awaiting.draft, is_reschedule)
     ELSE IF d.start <= t
     THEN tg_send(set_state(w, awaiting), "ask_future", "")
     ELSE FinalizeFailed(IF is_reschedule
                         THEN FinalizeReschedule(w, title, d.start, duration)
                         ELSE FinalizeSchedule(w, title, d.start, duration))

\* except Exception as e: of _handle_cancel
CancelFailed(w) == IF Ok(w) THEN w ELSE tg_send(Caught(w), "cancel_failed", w.exc)

CancelStored(w) ==
  IF ~Ok(w) \/ w.rEvent = NoEvent THEN w
  ELSE set_event(DeleteOldTasks(cancel_event(w, w.rEvent.eventId)), NoEvent)

\* (variant: the open draft is left in place when the appointment is cancelled)
handle_cancel_keeps_draft(w) ==
  CancelFailed(tg_send(CancelStored(get_event(w)), "cancelled", ""))

handle_cancel(w) ==
  CancelFailed(tg_send(CancelStored(get_event(set_state(w, NoState))), "cancelled", ""))

\* ---------------------------------------------------------- the webhook
\* (variant: the keyword vocabularies are tried before the stored intent)
Branch_keywords_first(m, st) ==
  IF m.cmd = "/help" THEN "help"
  ELSE IF st # NoState /\ m.stop THEN "stop"
  ELSE IF m.cmd = "/schedule" THEN "schedule_command"
  ELSE IF m.cmd = "/reschedule" THEN "reschedule_command"
  ELSE IF m.cmd = "/cancel" THEN "cancel_command"
  ELSE IF m.kwCancel THEN "cancel_keyword"
  ELSE IF m.kwReschedule THEN "reschedule_keyword"
  ELSE IF m.kwSchedule THEN "schedule_keyword"
  ELSE IF st.intent = "schedule" THEN "continue_schedule"
  ELSE IF st.intent = "reschedule" THEN "continue_reschedule"
  ELSE "unrecognized"

\* The if-chain of telegram_webhook: which branch handles message m when the
\* stored conversation state is st.
Branch(m, st) ==
  IF m.cmd = "/help" THEN "help"
  ELSE IF st # NoState /\ m.stop THEN "stop"
  ELSE IF m.cmd = "/schedule" THEN "schedule_command"
  ELSE IF m.cmd = "/reschedule" THEN "reschedule_command"
  ELSE IF m.cmd = "/cancel" THEN "cancel_command"
  ELSE IF m.kwCancel THEN "cancel_keyword"
  ELSE IF st.intent = "schedule" THEN "continue_schedule"
  ELSE IF st.intent = "reschedule" THEN "continue_reschedule"
  ELSE IF m.kwReschedule THEN "reschedule_keyword"
  ELSE IF m.kwSchedule THEN "schedule_keyword"
  ELSE "unrecognized"

\* "if text: storage.append_message(...)"
Arrive(w, m) == IF m.empty THEN w ELSE append_message(w)
\* ... followed by "state = storage.get_state(chat_id) or {}"
Begin(w, m) == get_state(Arrive(w, m))

\* raise ValueError(...) inside a try block
Throw(w, reason) == IF ~Ok(w) THEN w ELSE Raise(w, reason)

ScheduleCommandFailed(w) ==
  IF Ok(w) THEN w ELSE tg_send(Caught(w), "schedule_failed", w.exc)

ScheduleByCommand(w, m) ==
  IF ~m.ok THEN Throw(w, "Format: /schedule YYYY-MM-DD HH:MM 30m Title")
  ELSE send_email(
         tg_send(
           StoreTaskNames(RemindOf(StoreEvent(
             create_event(w, m.resid, Combine(m.pDate, m.pTime), m.dur)))),
           "scheduled_by_command", m.resid))

\* storage.set_state(chat_id, None) stands before the try block
TryAfterClear(w, body) == IF ~Ok(w) THEN w ELSE body

schedule_command(w, m) ==
  TryAfterClear(set_state(w, NoState),
                ScheduleCommandFailed(ScheduleByCommand(set_state(w, NoState), m)))

RescheduleCommandFailed(w) ==
  IF Ok(w) THEN w ELSE tg_send(Caught(w), "reschedule_failed", w.exc)

MoveByCommand(w, m) ==
  IF ~Ok(w) THEN w
  ELSE IF w.rEvent = NoEvent THEN Throw(w, "No existing event to reschedule.")
  ELSE tg_send(
         StoreTaskNames(RemindOf(DeleteOldTasks(StoreEvent(
           reschedule_event(w, w.rEvent.eventId, Combine(m.pDate, m.pTime),
                            IF m.dur # None THEN m.dur ELSE w.rEvent.minutes))))),
         "rescheduled", "")

RescheduleByCommand(w, m) ==
  IF ~m.ok THEN Throw(w, "Format: /reschedule YYYY-MM-DD HH:MM [30m]")
  ELSE MoveByCommand(get_event(w), m)

reschedule_command(w, m) ==
  TryAfterClear(set_state(w, NoState),
                RescheduleCommandFailed(RescheduleByCommand(set_state(w, NoState), m)))

\* the draft a reschedule starts from: the fields of the stored appointment
BaseDraft(e) ==
  [title    |-> IF e.summary # "" THEN e.summary ELSE "Appointment",
   duration |-> e.minutes,
   date     |-> DateOf(e.start)]

\* details = _merge_schedule_details(text, draft), then _complete_schedule
MergeAndComplete(w, m, draft, is_reschedule, t) ==
  complete_schedule([w EXCEPT !.details = merge_schedule_details(m, draft, t)],
                    merge_schedule_details(m, draft, t), is_reschedule, t)

continue_schedule(w, m, t) == MergeAndComplete(w, m, w.state.draft, FALSE, t)

\* base_draft.setdefault(...) fills only keys the stored draft lacks; a draft
\* written by _complete_schedule has all three keys, so the stored draft is used.
ContinueMove(w, m, t) ==
  IF ~Ok(w) THEN w ELSE MergeAndComplete(w, m, w.state.draft, TRUE, t)

continue_reschedule(w, m, t) == ContinueMove(get_event(w), m, t)

NothingToMoveOffer(w) == set_state(tg_send(w, "no_appointment_offer_new", ""), NoState)

\* (variant: with nothing to move, the request is taken as a new appointment)
StartMove_creates(w, m, t) ==
  IF ~Ok(w) THEN w
  ELSE IF w.rEvent = NoEvent THEN MergeAndComplete(w, m, EmptyDraft, FALSE, t)
  ELSE MergeAndComplete(w, m, BaseDraft(w.rEvent), TRUE, t)

StartMove(w, m, t) ==
  IF ~Ok(w) THEN w
  ELSE IF w.rEvent = NoEvent THEN NothingToMoveOffer(w)
  ELSE MergeAndComplete(w, m, BaseDraft(w.rEvent), TRUE, t)

reschedule_keyword(w, m, t) == StartMove(get_event(w), m, t)

schedule_keyword(w, m, t) == MergeAndComplete(w, m, EmptyDraft, FALSE, t)

unrecognized(w, m) == IF m.empty THEN w ELSE tg_send(w, "note", "")

\* (variant: the phrase is acknowledged but the draft stays stored)
stop_conversation_keeps_draft(w) == tg_send(w, "hold_off", "")

stop_conversation(w) == tg_send(set_state(w, NoState), "hold_off", "")

help(w, m) == tg_send(Arrive(w, m), "help", "")

Dispatch(w, m, t, b) ==
  IF ~Ok(w) THEN w
  ELSE CASE b = "stop"                -> stop_conversation(w)
         [] b = "schedule_command"    -> schedule_command(w, m)
         [] b = "reschedule_command"  -> reschedule_command(w, m)
         [] b = "cancel_command"      -> handle_cancel(w)
         [] b = "cancel_keyword"      -> handle_cancel(w)
         [] b = "continue_schedule"   -> continue_schedule(w, m, t)
         [] b = "continue_reschedule" -> continue_reschedule(w, m, t)
         [] b = "reschedule_keyword"  -> reschedule_keyword(w, m, t)
         [] b = "schedule_keyword"    -> schedule_keyword(w, m, t)
         [] OTHER                     -> unrecognized(w, m)

\* telegram_webhook on message m at time t, from the stored data in w
telegram_webhook(w, m, t) ==
  IF Branch(m, w.state) = "help" THEN help(w, m)
  ELSE Dispatch(Begin(w, m), m, t, Branch(m, w.state))

\* ----------------------------------------------------------------- actions
\* the requests of the chat that may be in the handler at the same time
Handlers == {1, 2}
\* a handler with no request: made is the draft its last request finalized into
\* a calendar creation (NoState when it created nothing from a draft)
NoRequest == [pc |-> "idle", msg |-> NoMessage, loaded |-> NoState, made |-> NoState]

Init ==
  /\ now = 0
  /\ state = NoState
  /\ event = NoEvent
  /\ task_names = {}
  /\ cal = {}
  /\ tasks = {}
  /\ nextId = 1
  /\ pc = "idle"
  /\ msg = NoMessage
  /\ fault = "none"
  /\ pre = NoPre
  /\ details = NoDetails
  /\ branch = ""
  /\ out = <<>>
  /\ eff = <<>>
  /\ result = ""
  /\ hist = NoHist
  /\ inflight = [h \in Handlers |-> NoRequest]
  /\ serialized = TRUE
  /\ races = {}

\* time passes between requests
Tick ==
  /\ pc = "idle"
  /\ now < MaxNow
  /\ now' = now + 1
  /\ UNCHANGED <<state, event, task_names, cal, tasks, nextId, pc, msg, fault, pre,
                 details, branch, out, eff, result, hist>>
  /\ UNCHANGED <<inflight, serialized, races>>

\* the branches of telegram_webhook that can reach cal.create_event
CreatingBranches == {"schedule_command", "schedule_keyword", "continue_schedule"}

\* instants of a clock that counts the minutes since 2024-03-01T00:00
At(hour, minute) == 60 * hour + minute
ClockTimes == {At(8, 0), At(23, 45)}

\* The extraction alone, on a clock that counts minutes: a text with relative
\* phrases arrives at one of the instants ClockTimes.
InitRelative(M) ==
  /\ now \in ClockTimes
  /\ msg \in M
  /\ state = NoState
  /\ event = NoEvent
  /\ task_names = {}
  /\ cal = {}
  /\ tasks = {}
  /\ nextId = 1
  /\ pc = "idle"
  /\ fault = "none"
  /\ pre = NoPre
  /\ details = NoDetails
  /\ branch = ""
  /\ out = <<>>
  /\ eff = <<>>
  /\ result = ""
  /\ hist = NoHist
  /\ inflight = [h \in Handlers |-> NoRequest]
  /\ serialized = TRUE
  /\ races = {}

\* details = _extract_datetime_details(text)
ExtractDetails ==
  /\ pc = "idle"
  /\ details' = extract_datetime_details(msg, now)
  /\ pc' = "done"
  /\ UNCHANGED <<now, state, event, task_names, cal, tasks, nextId, msg, fault, pre,
                 branch, out, eff, result, hist>>
  /\ UNCHANGED <<inflight, serialized, races>>

\* the handler's writes and its observable behaviour become the new state
Commit(w) ==
  /\ state' = w.state
  /\ event' = w.event
  /\ task_names' = w.task_names
  /\ cal' = w.cal
  /\ tasks' = w.tasks
  /\ nextId' = w.nextId
  /\ details' = w.details
  /\ out' = w.out
  /\ eff' = w.eff
  /\ result' = IF Ok(w) THEN "ok" ELSE "uncaught"

\* An update with message m reaches the webhook while collaborator f is failing
\* ("none": all answer) and is handled by branch b: the handler runs to its
\* return, or to the exception that leaves it.
Handle(m, f, b) ==
  /\ Commit(telegram_webhook(World(f), m, now))
  /\ msg' = m
  /\ fault' = f
  /\ pre' = [state |-> state, event |-> event, task_names |-> task_names]
  /\ branch' = b
  /\ pc' = "done"
  /\ UNCHANGED <<now, hist>>
  /\ UNCHANGED <<inflight, serialized, races>>

\* the calendar of the runs holds at most MaxEvents created events
Run(m, f, b) ==
  /\ b \in CreatingBranches => nextId <= MaxEvents
  /\ Handle(m, f, b)

Help(M, F) ==
  \E m \in M, f \in F :
    /\ pc = "idle" /\ Branch(m, state) = "help"
    /\ Run(m, f, "help")
StopConversation(M, F) ==
  \E m \in M, f \in F :
    /\ pc = "idle" /\ Branch(m, state) = "stop"
    /\ Run(m, f, "stop")
ScheduleCommand(M, F) ==
  \E m \in M, f \in F :
    /\ pc = "idle" /\ Branch(m, state) = "schedule_command"
    /\ Run(m, f, "schedule_command")
RescheduleCommand(M, F) ==
  \E m \in M, f \in F :
    /\ pc = "idle" /\ Branch(m, state) = "reschedule_command"
    /\ Run(m, f, "reschedule_command")
CancelCommand(M, F) ==
  \E m \in M, f \in F :
    /\ pc = "idle" /\ Branch(m, state) = "cancel_command"
    /\ Run(m, f, "cancel_command")
CancelKeyword(M, F) ==
  \E m \in M, f \in F :
    /\ pc = "idle" /\ Branch(m, state) = "cancel_keyword"
    /\ Run(m, f, "cancel_keyword")
ContinueSchedule(M, F) ==
  \E m \in M, f \in F :
    /\ pc = "idle" /\ Branch(m, state) = "continue_schedule"
    /\ Run(m, f, "continue_schedule")
ContinueReschedule(M, F) ==
  \E m \in M, f \in F :
    /\ pc = "idle" /\ Branch(m, state) = "continue_reschedule"
    /\ Run(m, f, "continue_reschedule")
RescheduleKeyword(M, F) ==
  \E m \in M, f \in F :
    /\ pc = "idle" /\ Branch(m, state) = "reschedule_keyword"
    /\ Run(m, f, "reschedule_keyword")
ScheduleKeyword(M, F) ==
  \E m \in M, f \in F :
    /\ pc = "idle" /\ Branch(m, state) = "schedule_keyword"
    /\ Run(m, f, "schedule_keyword")
Unrecognized(M, F) ==
  \E m \in M, f \in F :
    /\ pc = "idle" /\ Branch(m, state) = "unrecognized"
    /\ Run(m, f, "unrecognized")

\* ---- two requests of one chat in the handler at once
Wrote(w, op) == \E i \in DOMAIN w.eff : w.eff[i].op = op /\ w.eff[i].ok

\* per-chat serialization by the surrounding system: a request enters the handler
\* only when no other request of the chat is in it
MayEnter(h) == serialized => \A g \in Handlers : inflight[g].pc = "idle"

\* (variant: the handler starts from an empty state instead of reading the store)
Load_blank(h, m) ==
  /\ inflight[h].pc = "idle"
  /\ MayEnter(h)
  /\ inflight' = [inflight EXCEPT ![h] =
                    [pc |-> "loaded", msg |-> m, loaded |-> NoState, made |-> NoState]]
  /\ UNCHANGED <<now, state, event, task_names, cal, tasks, nextId, pc, msg, fault, pre,
                 details, branch, out, eff, result, hist, serialized, races>>

\* "state = storage.get_state(chat_id) or {}": the request of handler h reads the
\* stored conversation state into its local variable
Load(h, m) ==
  /\ inflight[h].pc = "idle"
  /\ MayEnter(h)
  /\ inflight' = [inflight EXCEPT ![h] =
                    [pc |-> "loaded", msg |-> m, loaded |-> state, made |-> NoState]]
  /\ UNCHANGED <<now, state, event, task_names, cal, tasks, nextId, pc, msg, fault, pre,
                 details, branch, out, eff, result, hist, serialized, races>>

\* the races a handler's writes w make when it read the state as loaded:
\*   lost_update    it stores a draft over a stored state that is no longer the
\*                  one it read and differs from what it stores: the stored
\*                  draft reflects its message only
\*   double_create  it creates a calendar event from a draft that another handler
\*                  has meanwhile finalized into a creation too
RacesOf(h, w) ==
  (IF /\ inflight[h].loaded # state /\ Wrote(w, "set_state")
      /\ w.state # NoState /\ w.state # state
   THEN {"lost_update"} ELSE {})
  \cup
  (IF /\ inflight[h].loaded # state /\ Wrote(w, "create_event")
      /\ inflight[h].loaded.intent = "schedule"
      /\ \E g \in Handlers \ {h} : inflight[g].made = inflight[h].loaded
   THEN {"double_create"} ELSE {})

\* the writes of the rest of the handler reach the store and the collaborators;
\* the stored state changes only if storage.set_state was called
Decide(h, w) ==
  /\ state' = IF Wrote(w, "set_state") THEN w.state ELSE state
  /\ event' = w.event
  /\ task_names' = w.task_names
  /\ cal' = w.cal
  /\ tasks' = w.tasks
  /\ nextId' = w.nextId
  /\ races' = races \cup RacesOf(h, w)
  /\ inflight' = [inflight EXCEPT ![h] =
                    [NoRequest EXCEPT !.made = IF Wrote(w, "create_event")
                                               THEN inflight[h].loaded ELSE NoState]]

\* the rest of telegram_webhook after the state was read: the branch is chosen
\* from the state the handler holds, whatever the store holds by now
Act(h) ==
  /\ inflight[h].pc = "loaded"
  /\ Branch(inflight[h].msg, inflight[h].loaded) \in CreatingBranches
       => nextId <= MaxEvents + 1
  /\ Decide(h, Dispatch([World("none") EXCEPT !.state = inflight[h].loaded],
                        inflight[h].msg, now,
                        Branch(inflight[h].msg, inflight[h].loaded)))
  /\ UNCHANGED <<now, pc, msg, fault, pre, details, branch, out, eff, result, hist,
                 serialized>>

\* a request of the chat enters a handler
Enter(M) == \E h \in Handlers, m \in M : Load(h, m)
\* a handler that read the state goes on to its return
Proceed == \E h \in Handlers : Act(h)

\* a request for a new appointment reaches the webhook while one is stored; the
\* calendar then comes to hold one event more
ScheduleAgain(M, F) ==
  \E m \in M, f \in F :
    /\ pc = "idle" /\ Branch(m, state) \in CreatingBranches
    /\ event # NoEvent /\ nextId <= MaxEvents + 1
    /\ Handle(m, f, Branch(m, state))

\* the response is sent; the request's locals are gone
Respond(keep) ==
  /\ pc = "done"
  /\ pc' = "idle"
  /\ hist' = IF keep THEN [msg |-> msg, out |-> out, state |-> state, branch |-> branch]
                     ELSE NoHist
  /\ msg' = NoMessage
  /\ fault' = "none"
  /\ pre' = NoPre
  /\ details' = NoDetails
  /\ branch' = ""
  /\ out' = <<>>
  /\ eff' = <<>>
  /\ result' = ""
  /\ UNCHANGED <<now, state, event, task_names, cal, tasks, nextId>>
  /\ UNCHANGED <<inflight, serialized, races>>

\* ------------------------------------------------------ the messages tried
\* keyword vocabularies found in a text: <<cancel, reschedule, schedule>>
NoKeyword   == <<FALSE, FALSE, FALSE>>
KwCancel    == <<TRUE, FALSE, FALSE>>
KwMove      == <<FALSE, TRUE, FALSE>>
KwSchedule  == <<FALSE, FALSE, TRUE>>
KwBoth      == <<FALSE, TRUE, TRUE>>     \* "reschedule" holds "schedule"
Keywords    == {NoKeyword, KwMove, KwSchedule}

\* <<duration, title residue>> of a text
Unworded    == <<None, "">>
Wordings    == {<<DefaultDuration, "">>, <<60, "sync">>}

\* <<datePat, timePat, pDate, pTime>>: what the two patterns and the parser find
DateTexts     == {<<TRUE, FALSE, d, None>> : d \in Days}          \* "on 2024-03-02"
                   \cup {<<TRUE, FALSE, None, None>>}             \* "tomorrow"
                   \cup {<<TRUE, FALSE, None, 0>>}                \* "tomorrow at 0"
TimeTexts     == {<<FALSE, TRUE, None, t>> : t \in Tods}          \* "9am"
DateTimeTexts == {<<TRUE, TRUE, d, t>> : d \in Days, t \in Tods}  \* "2024-03-02 10:00"
                   \cup {<<TRUE, TRUE, None, 0>>}                 \* "tomorrow 00:00"
PlainTexts    == {<<FALSE, FALSE, None, None>>,                   \* "lunch with Ann"
                  <<FALSE, FALSE, None, 1>>}                      \* "lunch at 1"
Findings      == DateTexts \cup TimeTexts \cup DateTimeTexts \cup PlainTexts

Text(stop, k, rel, x, v) ==
  Message("", FALSE, FALSE, stop, k[1], k[2], k[3], rel, x[1], x[2], x[3], x[4], v[1], v[2])

\* "in n hours", the clock's tick being the hour: the phrase is also a match of
\* DURATION_PATTERN ("n hours"), so _extract_duration finds its length in it
InHours(k, n) ==
  Text(FALSE, k, n, <<FALSE, FALSE, None, None>>, <<digit_duration(n, "hours"), "">>)

\* texts with a relative phrase
RelativeTexts ==
  {InHours(k, MaxRel) : k \in Keywords}

\* the findings tried with a keyword
Requests ==
  {<<TRUE, FALSE, MaxDay, None>>, <<FALSE, TRUE, None, 0>>, <<TRUE, TRUE, MaxDay, 1>>,
   <<TRUE, TRUE, 0, 0>>, <<FALSE, FALSE, None, None>>}

\* texts without a relative phrase: every finding without a keyword, the
\* requests under each keyword, and the wordings of a duration and a title in
\* requests for a new appointment
AbsoluteTexts ==
  {Text(FALSE, NoKeyword, None, x, Unworded) : x \in Findings}
    \cup {Text(FALSE, k, None, x, Unworded) : k \in {KwMove, KwSchedule}, x \in Requests}
    \cup {Text(FALSE, KwSchedule, None, x, v) :
            x \in {<<TRUE, FALSE, MaxDay, None>>, <<FALSE, FALSE, None, None>>},
            v \in Wordings}

\* texts with keywords of several vocabularies, or with a stop phrase
MixedTexts ==
  {Text(FALSE, k, None, <<TRUE, TRUE, MaxDay, 1>>, Unworded) : k \in {KwCancel, KwBoth}}
StopTexts ==
  {Text(TRUE, k, None, <<FALSE, FALSE, None, None>>, Unworded) :
     k \in {NoKeyword, KwSchedule, KwCancel}}

\* an update without text (a photo, a sticker)
EmptyUpdate == NoMessage

Command(cmd, ok, stop, k, d, t, n, title) ==
  Message(cmd, ok, FALSE, stop, k[1], k[2], k[3], None, ok, ok, d, t, n, title)

Commands ==
  {Command("/help", FALSE, s, NoKeyword, None, None, None, "") : s \in BOOLEAN}
  \cup {Command("/cancel", FALSE, s, KwCancel, None, None, None, "") : s \in BOOLEAN}
  \cup {Command("/schedule", FALSE, s, KwSchedule, None, None, None, "") : s \in BOOLEAN}
  \cup {Command("/schedule", TRUE, FALSE, KwSchedule, d, t, 60, "sync") :
          d \in Days, t \in Tods}
  \cup {Command("/schedule", TRUE, FALSE, KwSchedule, MaxDay, TicksPerDay - 1, 0, "sync")}
  \cup {Command("/reschedule", FALSE, s, KwBoth, None, None, None, "") : s \in BOOLEAN}
  \cup {Command("/reschedule", TRUE, FALSE, KwBoth, MaxDay, t, None, "") : t \in Tods}
  \cup {Command("/reschedule", TRUE, FALSE, KwBoth, 0, 0, 60, "")}

\* the relative phrases tried: "in 30 minutes", "in 90 min", "in 2 hours",
\* "in half an hour", "in an hour", "in two hours", "in twelve hours"
RelativePhrases ==
  {Phrase("minutes", 30, ""), Phrase("minutes", 90, ""), Phrase("hours", 2, ""),
   Phrase("half_hour", None, ""), Phrase("single_hour", None, "an"),
   Phrase("word_hours", None, "two"), Phrase("word_hours", None, "twelve")}
PhraseTexts ==
  UNION {[1..n -> RelativePhrases] : n \in 1..MaxPhrases}

\* a text with relative phrases: rel is what _parse_relative_datetime makes of
\* them, dur what _extract_duration makes of them
Phrased(phrases, k, x) ==
  [phrases |-> phrases]
    @@ Text(FALSE, k, relative_minutes(phrases), x, <<phrase_duration(phrases), "">>)

\* texts with relative phrases, alone and beside an absolute date and time
PhrasedTexts ==
  {Phrased(p, KwSchedule, x) :
     p \in PhraseTexts, x \in {<<FALSE, FALSE, None, None>>, <<TRUE, TRUE, MaxDay, 1>>}}

Texts == RelativeTexts \cup AbsoluteTexts \cup MixedTexts \cup StopTexts \cup {EmptyUpdate}
Msgs  == Texts \cup Commands

\* ---------------------------------------------------------- specifications
NoFaults == {"none"}

\* every collaborator answers
Next ==
  \/ Help(Msgs, NoFaults)
  \/ StopConversation(Msgs, NoFaults)
  \/ ScheduleCommand(Msgs, NoFaults)
  \/ RescheduleCommand(Msgs, NoFaults)
  \/ CancelCommand(Msgs, NoFaults)
  \/ CancelKeyword(Msgs, NoFaults)
  \/ ContinueSchedule(Msgs, NoFaults)
  \/ ContinueReschedule(Msgs, NoFaults)
  \/ RescheduleKeyword(Msgs, NoFaults)
  \/ ScheduleKeyword(Msgs, NoFaults)
  \/ Unrecognized(Msgs, NoFaults)
  \/ Respond(FALSE)
  \/ Tick

Spec == Init /\ [][Next]_vars

\* the texts of a conversation that gives the date and the time in turns
TurnTexts ==
  {Text(FALSE, k, None, x, Unworded) :
     k \in Keywords, x \in {<<TRUE, FALSE, d, None>> : d \in Days} \cup TimeTexts}
    \cup {Text(FALSE, KwSchedule, None, <<TRUE, FALSE, MaxDay, None>>, <<60, "sync">>)}
TurnCommands ==
  {Command("/help", FALSE, FALSE, NoKeyword, None, None, None, ""),
   Command("/cancel", FALSE, FALSE, KwCancel, None, None, None, ""),
   Command("/schedule", TRUE, FALSE, KwSchedule, MaxDay, 0, 60, "sync"),
   Command("/reschedule", TRUE, FALSE, KwBoth, MaxDay, 1, None, "")}
TurnMsgs ==
  TurnTexts \cup TurnCommands
    \cup {Text(TRUE, NoKeyword, None, <<FALSE, FALSE, None, None>>, Unworded),
          Text(FALSE, KwCancel, None, <<FALSE, FALSE, None, None>>, Unworded),
          Text(FALSE, NoKeyword, None, <<FALSE, FALSE, None, None>>, Unworded)}

\* every collaborator answers; the previous request of the chat is remembered
NextRepeat ==
  \/ Help(TurnMsgs, NoFaults)
  \/ StopConversation(TurnMsgs, NoFaults)
  \/ ScheduleCommand(TurnMsgs, NoFaults)
  \/ RescheduleCommand(TurnMsgs, NoFaults)
  \/ CancelCommand(TurnMsgs, NoFaults)
  \/ CancelKeyword(TurnMsgs, NoFaults)
  \/ ContinueSchedule(TurnMsgs, NoFaults)
  \/ ContinueReschedule(TurnMsgs, NoFaults)
  \/ RescheduleKeyword(TurnMsgs, NoFaults)
  \/ ScheduleKeyword(TurnMsgs, NoFaults)
  \/ Unrecognized(TurnMsgs, NoFaults)
  \/ Respond(TRUE)
  \/ Tick

SpecRepeat == Init /\ [][NextRepeat]_vars

\* the collaborators whose calls are made to fail, one per request
Collaborators ==
  {"append_message", "get_state", "set_state", "get_event", "set_event",
   "get_task_names", "set_task_names", "create_event", "reschedule_event",
   "cancel_event", "schedule_reminders", "delete_tasks", "send_email", "tg_send"}
Faults == {"none"} \cup Collaborators

FaultTexts ==
  {Text(FALSE, k, None, x, Unworded) :
     k \in {KwSchedule, KwMove},
     x \in {<<TRUE, FALSE, MaxDay, None>>, <<TRUE, TRUE, MaxDay, 1>>}}
    \cup {Text(FALSE, NoKeyword, None, <<FALSE, TRUE, None, 1>>, Unworded)}
FaultMsgs ==
  FaultTexts \cup TurnCommands
    \cup {Command("/schedule", FALSE, FALSE, KwSchedule, None, None, None, ""),
          Text(TRUE, NoKeyword, None, <<FALSE, FALSE, None, None>>, Unworded),
          Text(FALSE, KwCancel, None, <<FALSE, FALSE, None, None>>, Unworded),
          Text(FALSE, NoKeyword, None, <<FALSE, FALSE, None, None>>, Unworded)}

\* during a request one collaborator may be failing
NextFaults ==
  \/ Help(FaultMsgs, Faults)
  \/ StopConversation(FaultMsgs, Faults)
  \/ ScheduleCommand(FaultMsgs, Faults)
  \/ RescheduleCommand(FaultMsgs, Faults)
  \/ CancelCommand(FaultMsgs, Faults)
  \/ CancelKeyword(FaultMsgs, Faults)
  \/ ContinueSchedule(FaultMsgs, Faults)
  \/ ContinueReschedule(FaultMsgs, Faults)
  \/ RescheduleKeyword(FaultMsgs, Faults)
  \/ ScheduleKeyword(FaultMsgs, Faults)
  \/ Unrecognized(FaultMsgs, Faults)
  \/ Respond(FALSE)
  \/ Tick

SpecFaults == Init /\ [][NextFaults]_vars

\* every collaborator answers; an appointment may be requested while one is stored
NextAgain ==
  \/ Help(TurnMsgs, NoFaults)
  \/ StopConversation(TurnMsgs, NoFaults)
  \/ ScheduleCommand(TurnMsgs, NoFaults)
  \/ RescheduleCommand(TurnMsgs, NoFaults)
  \/ CancelCommand(TurnMsgs, NoFaults)
  \/ CancelKeyword(TurnMsgs, NoFaults)
  \/ ContinueSchedule(TurnMsgs, NoFaults)
  \/ ContinueReschedule(TurnMsgs, NoFaults)
  \/ RescheduleKeyword(TurnMsgs, NoFaults)
  \/ ScheduleKeyword(TurnMsgs, NoFaults)
  \/ Unrecognized(TurnMsgs, NoFaults)
  \/ ScheduleAgain(TurnMsgs, NoFaults)
  \/ Respond(FALSE)
  \/ Tick

SpecAgain == Init /\ [][NextAgain]_vars

\* the texts of two requests that meet in the handler: "schedule", "on
\* 2024-03-02", "at 10:00", "schedule a 60 minutes sync", and a cancellation phrase
ConcurrentMsgs ==
  {Text(FALSE, KwSchedule, None, <<FALSE, FALSE, None, None>>, Unworded),
   Text(FALSE, NoKeyword, None, <<TRUE, FALSE, MaxDay, None>>, Unworded),
   Text(FALSE, NoKeyword, None, <<FALSE, TRUE, None, TicksPerDay - 1>>, Unworded),
   Text(FALSE, KwSchedule, None, <<FALSE, FALSE, None, None>>, <<60, "sync">>),
   Text(TRUE, NoKeyword, None, <<FALSE, FALSE, None, None>>, Unworded)}

InitConcurrent ==
  /\ now = 0
  /\ state = NoState
  /\ event = NoEvent
  /\ task_names = {}
  /\ cal = {}
  /\ tasks = {}
  /\ nextId = 1
  /\ pc = "idle"
  /\ msg = NoMessage
  /\ fault = "none"
  /\ pre = NoPre
  /\ details = NoDetails
  /\ branch = ""
  /\ out = <<>>
  /\ eff = <<>>
  /\ result = ""
  /\ hist = NoHist
  /\ inflight = [h \in Handlers |-> NoRequest]
  /\ serialized \in BOOLEAN
  /\ races = {}

\* up to two requests of the chat are in the handler, serialized or not
NextConcurrent ==
  \/ Enter(ConcurrentMsgs)
  \/ Proceed

SpecConcurrent == InitConcurrent /\ [][NextConcurrent]_vars

\* the extraction of texts with relative phrases
NextRelative == ExtractDetails

SpecRelative == InitRelative(PhrasedTexts) /\ [][NextRelative]_vars

\* ------------------------------------------------------------------ claims
Attempted(op)  == \E i \in DOMAIN eff : eff[i].op = op
Succeeded(op)  == \E i \in DOMAIN eff : eff[i].op = op /\ eff[i].ok
Sent(kind)     == \E i \in DOMAIN out : out[i].kind = kind

CalendarOps    == {"create_event", "reschedule_event", "cancel_event"}
ReminderOps    == {"schedule_reminders", "delete_tasks"}
AppointmentOps == {"set_event", "set_task_names"}
NoneAttempted(ops) == \A i \in DOMAIN eff : eff[i].op \notin ops

Prompts == {"ask_time", "ask_time_for", "ask_when", "ask_when_for",
            "ask_move_time", "ask_move_when"}
ScheduleBranches   == {"schedule_keyword", "continue_schedule"}
RescheduleBranches == {"reschedule_keyword", "continue_reschedule"}

\* a text that is no explicit command
FreeText(m) == m.cmd = ""
\* a text from which a time is known: a relative phrase or a time pattern
KnowsTime(m) == m.rel # None \/ m.timePat
\* a text naming a time of day and no date
TimeOnly(m) ==
  FreeText(m) /\ m.rel = None /\ m.timePat /\ ~m.datePat /\ m.pDate = None /\ m.pTime # None
\* a text naming a date and no time
DateOnly(m) ==
  FreeText(m) /\ m.rel = None /\ m.datePat /\ ~m.timePat /\ m.pDate # None /\ m.pTime = None

\* C1: a text with a cancellation phrase (no explicit command, whose precedence
\* is C11's subject) handled while a draft is open leaves the conversation idle,
\* sends exactly the acknowledgment, attempts no calendar, reminder or
\* appointment-persistence call and leaves the stored appointment and reminder
\* references as they were.
C1_StopPhraseOnlyDiscardsDraft ==
  (pc = "done" /\ FreeText(msg) /\ msg.stop /\ pre.state # NoState) =>
     /\ state = NoState
     /\ out = <<Out("hold_off", "")>>
     /\ NoneAttempted(CalendarOps \cup ReminderOps \cup AppointmentOps)
     /\ event = pre.event
     /\ task_names = pre.task_names

C1_StopWithOpenDraft ==
  /\ pc = "done" /\ branch = "stop" /\ FreeText(msg)
  /\ pre.state.intent = "reschedule" /\ pre.state.draft.date # None
  /\ pre.event # NoEvent /\ pre.task_names # {}

\* C2: a reschedule request (reschedule keyword, /reschedule command, or a
\* reschedule continuation with a complete future start) for a chat without a
\* stored appointment attempts no calendar create or update, persists no
\* appointment, sends one explanatory message and leaves the conversation idle.
C2_RescheduleWithoutAppointment ==
  (/\ pc = "done" /\ pre.event = NoEvent
   /\ \/ branch \in {"reschedule_keyword", "reschedule_command"}
      \/ branch = "continue_reschedule" /\ details.start # None /\ details.start > now)
  =>
     /\ NoneAttempted({"create_event", "reschedule_event", "set_event"})
     /\ event = NoEvent
     /\ state = NoState
     /\ Len(out) = 1
     /\ out[1].kind \in {"no_appointment_offer_new", "no_appointment_to_move", "reschedule_failed"}

C2_MoveRequestedNothingStored ==
  /\ pc = "done" /\ branch = "reschedule_keyword" /\ pre.event = NoEvent
  /\ msg.datePat /\ msg.timePat /\ msg.pDate # None /\ msg.pTime # None
  /\ Combine(msg.pDate, msg.pTime) > now

\* C3: handling a message from which no time is known (no time pattern and no
\* relative phrase; a command off its grammar) attempts no calendar create or
\* update; in the dialogue the handler stores the draft under the intent and
\* sends one prompt, leaving the stored appointment alone.
C3_NoTimeNoFinalize ==
  (pc = "done" /\ ~KnowsTime(msg)) =>
     /\ NoneAttempted({"create_event", "reschedule_event"})
     /\ (branch \in ScheduleBranches \cup {"continue_reschedule"}
           \/ (branch = "reschedule_keyword" /\ pre.event # NoEvent))
        => /\ state.intent = (IF branch \in ScheduleBranches THEN "schedule" ELSE "reschedule")
           /\ state.draft.date = details.date
           /\ Len(out) = 1 /\ out[1].kind \in Prompts
           /\ event = pre.event
           /\ task_names = pre.task_names

\* the parser read a time of day the time pattern did not confirm ("lunch at 1")
C3_TimeReadButNotConfirmed ==
  /\ pc = "done" /\ branch = "continue_schedule" /\ ~KnowsTime(msg)
  /\ msg.pTime # None /\ msg.pTime # 0 /\ pre.state.draft.date # None
  /\ Sent("ask_time")

\* the requests of the dialogue, and the prompts that ask for a time of day
DialogueBranches == ScheduleBranches \cup RescheduleBranches
TimePrompts == {"ask_time", "ask_time_for", "ask_move_time"}

\* C4: when the same date-only text (without a cancellation phrase or cancel
\* keyword) is handled twice in a row in the dialogue, the first handling
\* leaving a draft, the second handling sends the same single prompt as the
\* first, a request for the time, and stores the same intent and draft; no
\* calendar call is attempted.
C4_PromptingIsIdempotent ==
  (/\ pc = "done" /\ DateOnly(msg) /\ ~msg.stop /\ hist.msg = msg
   /\ hist.branch \in DialogueBranches /\ hist.state # NoState)
  => /\ branch \in {"continue_schedule", "continue_reschedule"}
     /\ out = hist.out
     /\ Len(out) = 1 /\ out[1].kind \in TimePrompts
     /\ state = hist.state
     /\ state.draft.date = msg.pDate
     /\ NoneAttempted(CalendarOps)

\* the same text that named a title and a date is sent again
C4_SameDateTextAgain ==
  /\ pc = "done" /\ branch = "continue_schedule" /\ DateOnly(msg) /\ hist.msg = msg
  /\ hist.branch = "schedule_keyword" /\ msg.resid = "sync" /\ msg.dur = 60
  /\ Sent("ask_time_for") /\ state.draft.duration = 60

C6_PassedTimeRollsToTomorrow ==
  (/\ pc = "done" /\ branch = "schedule_keyword" /\ TimeOnly(msg)
   /\ Combine(DateOf(now), msg.pTime) <= now)
  => /\ details.date = DateOf(now) + 1
     /\ details.start = Combine(DateOf(now) + 1, msg.pTime)
     /\ details.start > now

\* C7: in the dialogue a draft whose resolved start is not strictly after now is
\* not finalized: no calendar, appointment-persistence or reminder call is
\* attempted, the conversation is stored as awaiting under the current intent
\* with the draft, and the user is asked for a future time. (The stored draft
\* writes None for the default duration, which also stands in for a duration of
\* zero minutes.)
C7_PastStartNotFinalized ==
  (/\ pc = "done" /\ branch \in ScheduleBranches \cup RescheduleBranches
   /\ details.start # None /\ details.start <= now)
  => /\ NoneAttempted(CalendarOps \cup ReminderOps \cup AppointmentOps)
     /\ state.intent = (IF branch \in ScheduleBranches THEN "schedule" ELSE "reschedule")
     /\ state.draft.title = details.title
     /\ state.draft.date = details.date
     /\ state.draft.duration =
          (IF Truthy(details.duration) /\ details.duration # DefaultDuration
           THEN details.duration ELSE None)
     /\ out = <<Out("ask_future", "")>>
     /\ event = pre.event /\ task_names = pre.task_names

\* a start equal to now, reached while moving a stored appointment
C7_StartIsNow ==
  /\ pc = "done" /\ branch = "continue_reschedule"
  /\ details.start = now /\ pre.event # NoEvent
  /\ state.intent = "reschedule"

\* the collaborators C8 names: calendar create and update, appointment
\* persistence, reminder scheduling, notification and email
FinalizeCollaborators ==
  {"create_event", "reschedule_event", "set_event", "set_task_names",
   "schedule_reminders", "tg_send", "send_email"}
FailedAt(i) == i \in DOMAIN eff /\ ~eff[i].ok
FirstFailure == CHOOSE i \in DOMAIN eff : FailedAt(i) /\ \A j \in 1..(i - 1) : eff[j].ok

\* C8: when a call to one of those collaborators fails during a dialogue
\* finalize, no finalize step follows the failed call (only the clearing of the
\* conversation and the failure message do), the conversation is idle, the
\* failure message with the reason is sent, and the failed call is not made again.
C8_FailedFinalizeAborts ==
  (/\ pc = "done" /\ branch \in DialogueBranches
   /\ details.start # None /\ details.start > now
   /\ \E i \in DOMAIN eff : FailedAt(i)
   /\ eff[FirstFailure].op \in FinalizeCollaborators)
  => /\ \A j \in DOMAIN eff :
          j > FirstFailure => eff[j].op \in {"set_state", "tg_send"}
     /\ state = NoState
     /\ out # <<>> /\ out[Len(out)] = Out("finish_failed", eff[FirstFailure].op)
     /\ Cardinality({i \in DOMAIN eff : eff[i].op = eff[FirstFailure].op /\ ~eff[i].ok}) = 1

\* C9: whichever collaborator fails while a message is handled, the handler
\* returns normally and a message to the user has been sent.
C9_NoUncaughtFailure ==
  (pc = "done" /\ \E i \in DOMAIN eff : FailedAt(i))
  => result = "ok" /\ out # <<>>

\* C10: a /schedule or /reschedule command off its grammar is answered with the
\* usage format and changes nothing: intent and draft, stored appointment and
\* reminder references are as before, also when a draft was open.
C10_MalformedCommandChangesNothing ==
  (pc = "done" /\ branch \in {"schedule_command", "reschedule_command"} /\ ~msg.ok)
  => /\ out \in {<<Out("schedule_failed", "Format: /schedule YYYY-MM-DD HH:MM 30m Title")>>,
                 <<Out("reschedule_failed", "Format: /reschedule YYYY-MM-DD HH:MM [30m]")>>}
     /\ state = pre.state
     /\ event = pre.event
     /\ task_names = pre.task_names

\* the branch an explicit command belongs to
CommandBranch(cmd) ==
  CASE cmd = "/help" -> "help"
    [] cmd = "/schedule" -> "schedule_command"
    [] cmd = "/reschedule" -> "reschedule_command"
    [] cmd = "/cancel" -> "cancel_command"

\* C11: a text starting with an explicit command is handled as that command,
\* also when it holds a cancellation phrase and a draft is open; a text without
\* a command that holds a cancellation phrase while a draft is open is handled
\* as the cancellation phrase, before continuation and keywords.
C11_CommandBeforeStopPhrase ==
  pc = "done"
  => /\ ~FreeText(msg) => branch = CommandBranch(msg.cmd)
     /\ (FreeText(msg) /\ msg.stop /\ pre.state # NoState) => branch = "stop"

\* a text with no command and no word of the three keyword vocabularies
NoVocabulary(m) ==
  FreeText(m) /\ ~m.empty /\ ~m.kwCancel /\ ~m.kwReschedule /\ ~m.kwSchedule

\* C12: with the chat idle, a non-empty text with no command and no keyword is
\* still put through the schedule extraction: when it gives a start after now the
\* appointment is created and stored and the chat stays idle; when it gives no
\* start the chat awaits the schedule's details and a prompt is sent.
C12_FallbackExtraction ==
  (pc = "done" /\ pre.state = NoState /\ NoVocabulary(msg))
  => LET d == merge_schedule_details(msg, EmptyDraft, now) IN
     /\ (d.start # None /\ d.start > now)
        => /\ Succeeded("create_event")
           /\ event.start = d.start
           /\ state = NoState
     /\ d.start = None
        => /\ state.intent = "schedule"
           /\ \E i \in DOMAIN out : out[i].kind \in Prompts

\* C13: the calendar events created and not deleted are at most one, and that
\* one is the stored appointment, also after a schedule was finalized while an
\* appointment was stored.
C13_OneActiveAppointment ==
  /\ Cardinality(cal) <= 1
  /\ \A c \in cal : event # NoEvent /\ c.eventId = event.eventId

\* C14: while one message is handled at most one calendar mutation (create,
\* update or delete) is issued, and no collaborator call that failed is issued
\* again.
C14_SideEffectsAtMostOnce ==
  pc = "done"
  => /\ Cardinality({i \in DOMAIN eff : eff[i].op \in CalendarOps}) <= 1
     /\ \A i, j \in DOMAIN eff : (i < j /\ ~eff[i].ok) => eff[j].op # eff[i].op

\* the offset a relative phrase states, in minutes
Stated(phrase) ==
  CASE phrase.pattern = "minutes" -> phrase.number
    [] phrase.pattern = "hours" -> 60 * phrase.number
    [] phrase.pattern = "half_hour" -> 30
    [] phrase.pattern = "single_hour" -> 60
    [] phrase.pattern = "word_hours" -> 60 * WORD_TO_NUMBER(phrase.word)

\* C15: the extraction of a text with a relative phrase gives now + the stated
\* offset as start, with date and time both marked present, whatever absolute
\* date and time the text also holds: at 08:00 "in 30 minutes" and "in half an
\* hour" give 08:30 and "in 2 hours" gives 10:00.
C15_RelativePhraseResolves ==
  pc = "done"
  => /\ details.has_date /\ details.has_time
     /\ Len(msg.phrases) = 1 => details.start = now + Stated(msg.phrases[1])
     /\ \E i \in DOMAIN msg.phrases : details.start = now + Stated(msg.phrases[i])
     /\ (now = At(8, 0) /\ msg.phrases = <<Phrase("minutes", 30, "")>>)
        => details.start = At(8, 30)
     /\ (now = At(8, 0) /\ msg.phrases = <<Phrase("half_hour", None, "")>>)
        => details.start = At(8, 30)
     /\ (now = At(8, 0) /\ msg.phrases = <<Phrase("hours", 2, "")>>)
        => details.start = At(10, 0)

\* "in half an hour, 2024-03-02 10:00" read at 08:00
C15_HalfAnHourBesideADate ==
  /\ pc = "done" /\ now = At(8, 0)
  /\ msg.phrases = <<Phrase("half_hour", None, "")>>
  /\ msg.datePat /\ msg.timePat /\ msg.pDate # None
  /\ details.start = At(8, 30)

\* C16: a date-only text handled right after a time-only text that left a draft
\* resolves to the start made of the second text's date and the first text's
\* time of day.
C16_TimeThenDateMerge ==
  (/\ pc = "done" /\ DateOnly(msg) /\ ~msg.kwCancel /\ ~msg.stop
   /\ TimeOnly(hist.msg) /\ hist.branch \in DialogueBranches /\ hist.state # NoState)
  => /\ branch \in {"continue_schedule", "continue_reschedule"}
     /\ details.start = Combine(msg.pDate, hist.msg.pTime)

\* C17: while the chat awaits the details of a schedule or of a reschedule, a
\* text with no command, no cancellation phrase and no cancel keyword is handled
\* as the continuation of that intent, whatever other keywords it holds: no
\* calendar call of the other intent is attempted, and afterwards the chat is
\* idle or awaits the same intent with the merged draft stored.
C17_AwaitingIsSticky ==
  (/\ pc = "done" /\ pre.state.intent \in {"schedule", "reschedule"}
   /\ FreeText(msg) /\ ~msg.stop /\ ~msg.kwCancel)
  => /\ branch = IF pre.state.intent = "schedule" THEN "continue_schedule"
                                                   ELSE "continue_reschedule"
     /\ \/ state = NoState
        \/ state = AwaitingState(details, pre.state.intent = "reschedule")
     /\ pre.state.intent = "schedule" => ~Attempted("reschedule_event")
     /\ pre.state.intent = "reschedule" => ~Attempted("create_event")

\* "schedule it for 2024-03-02 10:00" while the details of a move are awaited
C17_ScheduleWordWhileAwaitingMove ==
  /\ pc = "done" /\ pre.state.intent = "reschedule"
  /\ FreeText(msg) /\ msg.kwSchedule /\ ~msg.kwReschedule
  /\ Succeeded("reschedule_event") /\ state = NoState

\* C18: every reminder task that is live was created for the stored appointment
\* at its stored start and is listed in the stored reminder references.
C18_RemindersTrackAppointment ==
  \A r \in tasks :
    /\ event # NoEvent
    /\ r.ev = event.eventId /\ r.start = event.start
    /\ r \in task_names

\* C19: a /cancel command or a text with a cancel keyword, handled as such in
\* any dialogue state while every collaborator answers, leaves the chat idle;
\* with an appointment stored it requests the calendar deletion of that
\* appointment's id and the deletion of reminder tasks and ends with no stored
\* appointment and no stored reminder reference; with none stored it makes no
\* calendar or reminder call.
C19_ExplicitCancel ==
  (pc = "done" /\ branch \in {"cancel_command", "cancel_keyword"})
  => /\ state = NoState
     /\ pre.event # NoEvent
        => /\ \E i \in DOMAIN eff :
                eff[i].op = "cancel_event" /\ eff[i].id = pre.event.eventId
           /\ Attempted("delete_tasks")
           /\ event = NoEvent
           /\ task_names = {}
     /\ pre.event = NoEvent => NoneAttempted(CalendarOps \cup ReminderOps)

\* the place of the first call of a collaborator among the request's calls
FirstCall(op) == CHOOSE i \in DOMAIN eff : eff[i].op = op /\ \A j \in 1..(i - 1) : eff[j].op # op
\* the place of its last call
LastCall(op) == CHOOSE i \in DOMAIN eff : eff[i].op = op /\ \A j \in (i + 1)..Len(eff) : eff[j].op # op

\* C20: a schedule finalize that every collaborator answers calls, in this order,
\* the calendar creation, the storing of the appointment, the scheduling of the
\* reminders, the confirmation message, the e-mail, and last the clearing of the
\* conversation.
C20_FinalizeStepsInOrder ==
  (pc = "done" /\ branch \in CreatingBranches /\ Succeeded("create_event"))
  => /\ \A op \in {"set_event", "schedule_reminders", "tg_send", "send_email", "set_state"} :
          Attempted(op)
     /\ FirstCall("create_event") < FirstCall("set_event")
     /\ FirstCall("set_event") < FirstCall("schedule_reminders")
     /\ FirstCall("schedule_reminders") < FirstCall("tg_send")
     /\ FirstCall("tg_send") < FirstCall("send_email")
     /\ LastCall("send_email") < FirstCall("set_state")

\* C21: when the requests of the chat are handled one at a time, no handler
\* stores a draft over a state it did not read and no two handlers finalize the
\* same draft into two calendar creations; without that serialization both
\* happen (C21_BothRacesHappen).
C21_SerializedHasNoRace ==
  serialized => races = {}

\* unserialized: a draft was stored over another request's and one draft was
\* finalized twice, leaving two calendar events
C21_BothRacesHappen ==
  /\ ~serialized
  /\ races = {"lost_update", "double_create"}
  /\ Cardinality(cal) = 2

\* C22: every duration handed to a calendar create or update is at least one
\* minute, so that the appointment's end is after its start.
C22_DurationAtLeastOneMinute ==
  pc = "done"
  => \A i \in DOMAIN eff :
       eff[i].op \in {"create_event", "reschedule_event"} => eff[i].minutes >= 1

\* C24: a text whose only duration-like phrase is its relative phrase, finalized
\* in the schedule dialogue, is created with the draft's duration or, the draft
\* giving none, with the 30 minutes default, and not with the offset's length.
C24_OffsetIsNotDuration ==
  (/\ pc = "done" /\ branch \in ScheduleBranches /\ msg.rel # None
   /\ Attempted("create_event"))
  => \A i \in DOMAIN eff :
       eff[i].op = "create_event"
         => eff[i].minutes = IF Truthy(pre.state.draft.duration)
                             THEN pre.state.draft.duration ELSE DefaultDuration

\* the duration a text states in so many words; the texts with a relative phrase
\* tried here carry no other duration-like phrase
ExplicitDuration(m) == IF m.rel = None /\ Truthy(m.dur) THEN m.dur ELSE None

\* the texts of the draft the request finalizes, most recent first: the text of
\* the request and, in a continuation of a draft that the previous request
\* opened, the text of that request
DraftTexts ==
  IF branch \in {"continue_schedule", "continue_reschedule"}
     /\ hist.branch \in {"schedule_keyword", "reschedule_keyword"}
  THEN <<msg, hist.msg>>
  ELSE <<msg>>

LastStated(texts) ==
  IF \A i \in DOMAIN texts : ExplicitDuration(texts[i]) = None THEN None
  ELSE ExplicitDuration(texts[CHOOSE i \in DOMAIN texts :
                                 /\ ExplicitDuration(texts[i]) # None
                                 /\ \A j \in 1..(i - 1) : ExplicitDuration(texts[j]) = None])

\* C23: a draft finalized in the dialogue, all of whose texts are known (it was
\* opened by this request or by the previous one), is created or moved with the
\* duration its most recent text stating one states; no text stating one, with
\* the 30 minutes default when scheduling and with the stored appointment's own
\* duration when rescheduling.
C23_DurationInherited ==
  (/\ pc = "done" /\ branch \in DialogueBranches
   /\ branch \in {"continue_schedule", "continue_reschedule"} => Len(DraftTexts) = 2)
  => \A i \in DOMAIN eff :
       eff[i].op \in {"create_event", "reschedule_event"}
         => eff[i].minutes = IF LastStated(DraftTexts) # None THEN LastStated(DraftTexts)
                             ELSE IF branch \in ScheduleBranches THEN DefaultDuration
                             ELSE pre.event.minutes

\* C25: one request of the chat being handled at a time, the conversation awaits
\* the details of a move only while an appointment is stored, and a request that
\* removes the stored appointment leaves the conversation idle.
C25_MoveNeedsAppointment ==
  /\ state.intent = "reschedule" => event # NoEvent
  /\ (pc = "done" /\ pre.event # NoEvent /\ event = NoEvent) => state = NoState

\* the appointment is cancelled while the details of its move are awaited
C25_CancelledWhileAwaitingMove ==
  /\ pc = "done" /\ pre.state.intent = "reschedule" /\ pre.event # NoEvent
  /\ Succeeded("cancel_event") /\ event = NoEvent /\ state = NoState

\* C26: on every path, the two commands included, the calendar is asked to
\* create or to move an event only at a start strictly after the current time.
C26_CalendarStartInFuture ==
  pc = "done"
    => \A i \in DOMAIN eff :
         eff[i].op \in {"create_event", "reschedule_event"} => eff[i].start > now

====
